---- MODULE Spec2Model ----
(***************************************************************************)
(* The coding environment's sandboxed execution core: the session          *)
(* controller PythonCodeActEnv, its two executor backends (PyExecutor      *)
(* around the tree-walking interpreter, RestrictedPythonExecutor around    *)
(* compile_restricted + exec), the persistent execution context and the    *)
(* import gate.                                                            *)
(*                                                                         *)
(* A submission is a short program over a small statement alphabet.  A     *)
(* dotted module name is the sequence of its segments, so that             *)
(* name.split(".")[0] is the one-segment name <<Head(name)>>.  A stream    *)
(* (stdout, stderr) is the sequence of the pieces of text written to it;   *)
(* a piece is itself a sequence of strings.                                *)
(***************************************************************************)
EXTENDS Integers, Sequences, FiniteSets, TLC

VARIABLES
    backend_name,         \* PythonCodeActEnv._backend_name
    additional_imports,   \* PythonCodeActEnv._additional_imports
    ctx,                  \* the executor's namespace (_execution_context / interpreter state)
    collector,            \* text held by the PrintCollector instance bound to _print
    captured_screenshot,  \* executor._captured_screenshot
    episode_id,           \* CodeState.episode_id
    step_count,           \* CodeState.step_count
    last_exit_code,       \* CodeState.last_exit_code
    next_uuid,            \* the source of fresh uuid4 values
    runs,                 \* the number of submissions the controller has received
    last,                 \* the last controller call: its input, the namespace it started from, its outcome
    selector,             \* the executor_backend argument the caller supplied
    created_via,          \* how the controller was constructed: directly, or by app.py behind the client
    executor,             \* the identity of the backend instance in PythonCodeActEnv._executor
    accepted,             \* the CodeAction submissions step() has received since the last reset
    scratch_files,        \* the scratch files of capture attempts that are on disk
    time_sleep,           \* process-wide: the attribute sleep of the time module
    sys_streams,          \* process-wide: the objects bound to sys.stdout and sys.stderr
    ctx_b,                \* a second controller of the same process: its executor's namespace
    collector_b,          \* a second controller: text held by its PrintCollector instance
    step_count_b,         \* a second controller: CodeState.step_count
    alone_ctx,            \* the first controller's namespace in a process that holds no second one
    alone_collector,      \* its PrintCollector text in that process
    alone_sleep,          \* time.sleep in that process
    alone_obs,            \* the observation its last submission returns in that process
    pc,                   \* per thread: where its call of RestrictedPythonExecutor.run stands
    old_streams,          \* per thread: run's locals old_stdout and old_stderr
    captured,             \* per thread: the text in run's local stdout_capture
    returned_stdout,      \* per thread: the stdout of the result its last run returned
    thread_runs,          \* per thread: the runs it has started
    render_wanted,        \* the grace period the caller of the last capture submission asked for
    render_waited,        \* the argument of the time.sleep call of the last capture submission
    exec_result,          \* PyExecutor.run: what the call self._executor(code) gave
    derived,              \* PyExecutor.run: what run made of it
    client_call,          \* the arguments of CodingEnv.from_docker_image
    container_env,        \* the environment variables the container is started with
    app_imports,          \* app.py: additional_imports
    deploy_pc             \* how far the deployment has come

vars == <<backend_name, additional_imports, ctx, collector, captured_screenshot,
          episode_id, step_count, last_exit_code, next_uuid, runs, last,
          selector, created_via, executor, accepted, scratch_files,
          time_sleep, sys_streams,
          ctx_b, collector_b, step_count_b, alone_ctx, alone_collector, alone_sleep,
          alone_obs, pc, old_streams, captured, returned_stdout, thread_runs,
          render_wanted, render_waited,
          exec_result, derived, client_call, container_env, app_imports, deploy_pc>>

\* One call of the interpreter by PyExecutor.run.
interpreter_call == <<exec_result, derived>>

\* The deployment of the server by the client.
deployment == <<client_call, container_env, app_imports, deploy_pc>>

\* The grace period of the last capture.
grace == <<render_wanted, render_waited>>

\* The second controller of the process.
session_b == <<ctx_b, collector_b, step_count_b>>

\* The first controller, run in a process of its own.
alone == <<alone_ctx, alone_collector, alone_sleep, alone_obs>>

\* The threads that call run() concurrently.
threads == <<pc, old_streams, captured, returned_stdout, thread_runs>>

\* The first controller.
session_a == <<backend_name, additional_imports, ctx, collector, captured_screenshot,
               episode_id, step_count, last_exit_code, next_uuid, runs, last,
               selector, created_via, executor, accepted>>

\* ------------------------------------------------------------------ bounds

\* Submissions a controller receives in one behaviour.
MaxRuns == 2
\* Resets a controller receives in one behaviour.
MaxEpisodes == 1

\* The largest exit code an interpreter's result object carries.
MaxExitCode == 2

\* The longest additional_imports list a client passes.
MaxListLen == 2

\* ------------------------------------------------------------ module names

Top(name) == <<Head(name)>>

os == <<"os">>
os_path == <<"os", "path">>
numpy == <<"numpy">>
tkinter == <<"tkinter">>
dataclasses == <<"dataclasses">>
dataclass == <<"dataclass">>

\* The module names submissions import.
ImportTargets == {os_path, numpy, dataclasses}

\* The whitelists a controller is constructed with.
Whitelists == { {os, numpy}, {dataclass, os_path} }

\* The standard-library reference set (top-level names).
StdlibModules == {os, dataclasses}

\* Modules the runtime can actually load: the standard library, and the
\* third-party packages provisioned before the session starts.
Installed == {os, os_path, dataclasses, numpy}

Backends == {"smolagents", "restrictedpython"}

\* --------------------------------------------------------------- programs

UserVars == {"x"}

NoName == <<>>

\* x = 10
Assign(v, c) == [op |-> "assign", var |-> v, val |-> c, mod |-> NoName]
\* def x(): ...
Def(v) == [op |-> "def", var |-> v, val |-> "function", mod |-> NoName]
\* print(x)
PrintVar(v) == [op |-> "print", var |-> v, val |-> "", mod |-> NoName]
\* import os.path
Import(m) == [op |-> "import", var |-> "", val |-> "", mod |-> m]
\* x = 1/0
DivZero(v) == [op |-> "div0", var |-> v, val |-> "", mod |-> NoName]
\* raise SystemExit
RaiseSystemExit == [op |-> "exit", var |-> "", val |-> "", mod |-> NoName]
\* print((   -- malformed source
Malformed == [op |-> "syntax", var |-> "", val |-> "", mod |-> NoName]
\* a construct the backend's policy does not allow
Disallowed == [op |-> "policy", var |-> "", val |-> "", mod |-> NoName]
\* the auto-injected screenshot capture block
Injection == [op |-> "capture", var |-> "", val |-> "", mod |-> NoName]

\* The statements that bind or read the user's name.
Simple == {Assign("x", "10"), Def("x"), PrintVar("x")}

\* setattr(time, "sleep", None)
SetAttrSleep == [op |-> "setattr", var |-> "time", val |-> "None", mod |-> NoName]

\* time = 10: the user's own variable named time.
AssignTime == Assign("time", "10")

\* numpy = 10: the user's own variable named like a module.
AssignNumpy == Assign("numpy", "10")

\* getattr(x, "__globals__").update({"_getattr_": None, "_getitem_": None,
\*     "_getiter_": None, "_iter_unpack_sequence_": None, "__import__": None})
\* getattr is the builtin itself; x is a function the user defined.
RebindGuards == [op |-> "rebind_guards", var |-> "x", val |-> "None", mod |-> NoName]

\* getattr(x, "__globals__")["__builtins__"].update({"__import__":
\*     getattr(format_exc, "__globals__")["__builtins__"]["__import__"]})
RebindBuiltinsImport ==
    [op |-> "rebind_builtins", var |-> "x", val |-> "builtin_import", mod |-> NoName]

Stmts ==
    Simple \cup {DivZero("x"), RaiseSystemExit, Malformed, Disallowed, AssignTime, AssignNumpy}
    \cup {Import(m) : m \in ImportTargets}

\* The statements submitted with a capture request.
CaptureStmts == {PrintVar("x"), Malformed, AssignTime}

\* The statements that follow a first statement.
Seconds == {PrintVar("x"), DivZero("x"), Malformed, Disallowed, Import(numpy)}

\* The source texts a caller submits: one statement, or a binding or a print
\* followed by one statement.
Programs == {<<s>> : s \in Stmts} \cup {<<p, s>> : p \in Simple, s \in Seconds}

\* The source texts submitted with capture_screenshot=True: one statement.
CapturePrograms == {<<s>> : s \in CaptureStmts}

HasOp(code, o) == \E i \in 1..Len(code) : code[i].op = o

\* -------------------------------------------------------------- namespace

UNBOUND == "UNBOUND"

ModuleKeys == {Head(m) : m \in ImportTargets}

GuardKeys == {"_getattr_", "_getitem_", "_getiter_", "_iter_unpack_sequence_", "__import__"}

Keys ==
    UserVars \cup ModuleKeys \cup GuardKeys
    \cup {"__builtins__", "__name__", "__metaclass__", "format_exc", "safe_json_dumps",
          "time", "_print_", "_print",
          "internal_capture_screenshot", "capture_result", "msg", "screenshot",
          "_internal_capture_screenshot", "_capture_result", "_msg", "_screenshot"}

Empty == [k \in Keys |-> UNBOUND]

Bind(c, k, v) == [c EXCEPT ![k] = v]

\* The guard table run() installs before every execution.
Guards(c) ==
    [c EXCEPT !["_getattr_"] = "getattr",
              !["_getitem_"] = "getitem",
              !["_getiter_"] = "iter",
              !["_iter_unpack_sequence_"] = "iter",
              !["__import__"] = "restricted_import"]

\* RestrictedPythonExecutor._create_execution_context
RestrictedContext ==
    [Guards(Empty) EXCEPT !["__builtins__"] = "safe_builtins",
                          !["__name__"] = "__main__",
                          !["__metaclass__"] = "type",
                          !["format_exc"] = "format_exc",
                          !["safe_json_dumps"] = "safe_json_dumps",
                          !["time"] = "module"]

\* The interpreter's state after PyExecutor.__init__: empty, with the helper
\* tools sent by send_tools.
InterpreterContext ==
    [Empty EXCEPT !["format_exc"] = "format_exc",
                  !["safe_json_dumps"] = "safe_json_dumps",
                  !["_internal_capture_screenshot"] = "tool"]

\* ------------------------------------------------------------ import gate

\* restricted_import: the first dotted segment must be in _additional_imports.
\* A gate that authorizes every import.
AnyImportAllowed(imports, name) == TRUE

\* A gate that authorizes a name when any dotted prefix of it is listed.
PrefixImportAllowed(imports, name) ==
    \E i \in 1..Len(name) : SubSeq(name, 1, i) \in imports

RestrictedImportAllowed(imports, name) == Top(name) \in imports

RequiredImports ==
    {<<"subprocess">>, <<"tempfile">>, <<"base64">>, <<"pathlib">>, <<"traceback">>,
     <<"os">>, <<"shutil">>, <<"matplotlib">>, <<"matplotlib", "pyplot">>}

\* The modules the interpreter authorizes by itself.
BaseBuiltinModules ==
    {<<"collections">>, <<"datetime">>, <<"itertools">>, <<"math">>, <<"queue">>,
     <<"random">>, <<"re">>, <<"stat">>, <<"statistics">>, <<"time">>, <<"unicodedata">>}

\* PyExecutor.__init__: all_imports = set(additional_imports + required_imports)
AllImports(imports) == imports \cup RequiredImports

\* The interpreter authorizes a name when one of its dotted prefixes is authorized.
InterpreterImportAllowed(imports, name) ==
    \E i \in 1..Len(name) :
        SubSeq(name, 1, i) \in AllImports(imports) \cup BaseBuiltinModules

ImportAllowed(backend, imports, name) ==
    IF backend = "restrictedpython"
    THEN RestrictedImportAllowed(imports, name)
    ELSE InterpreterImportAllowed(imports, name)

\* -------------------------------------------------------------- execution

NoExc == [type |-> "None", args |-> <<>>]

Exc(t, a) == [type |-> t, args |-> a]

\* Whether "except Exception" catches an exception of this type: SystemExit
\* derives from BaseException only.
IsException(t) == t \notin {"None", "SystemExit"}

\* What the environment does to one capture attempt: the scratch file cannot be
\* created, the import command is not installed, it exceeds the timeout, it
\* exits non-zero, it exits 0 and the file is missing, empty or unreadable, or
\* it exits 0 and the file holds the image.
CaptureEnvs ==
    {"mktemp_error", "not_found", "timeout", "nonzero", "missing", "empty",
     "read_error", "ok"}

\* The capture tool's possible returns: a base64 payload, or None.
Payloads == {"png", "None"}

\* A cleanup that deletes nothing.
UnlinkNothing(files, exists) == files

\* Path(tmp_path).unlink(missing_ok=True) on a directory holding `files` scratch files.
Unlink(files, exists) == IF exists THEN files - 1 ELSE files

\* The diagnostic of each failure mode of screenshot_utils.capture_screenshot_base64.
UtilsDiagnostic(env) ==
    CASE env = "mktemp_error" -> <<"[DEBUG] screenshot_utils: ERROR: Unexpected error capturing screenshot">>
      [] env = "read_error" -> <<"[DEBUG] screenshot_utils: ERROR: Unexpected error capturing screenshot">>
      [] env = "not_found" -> <<"[DEBUG] screenshot_utils: ERROR: Command not found">>
      [] env = "timeout" -> <<"[DEBUG] screenshot_utils: ERROR: Screenshot capture timed out">>
      [] env = "nonzero" -> <<"[DEBUG] screenshot_utils: ERROR: Screenshot capture failed with exit code">>
      [] env = "missing" -> <<"[DEBUG] screenshot_utils: ERROR: Screenshot file was not created">>
      [] env = "empty" -> <<"[DEBUG] screenshot_utils: ERROR: Screenshot file is empty">>
      [] OTHER -> <<"[DEBUG] screenshot_utils: Screenshot captured">>

\* The diagnostic of each failure mode of PyExecutor's capture_screenshot_internal.
ToolDiagnostic(env) ==
    CASE env = "mktemp_error" -> <<"[DEBUG] Capture tool: ERROR - Unexpected exception">>
      [] env = "read_error" -> <<"[DEBUG] Capture tool: ERROR - Unexpected exception">>
      [] env = "not_found" -> <<"[DEBUG] Capture tool: ERROR - Command not found">>
      [] env = "timeout" -> <<"[DEBUG] Capture tool: ERROR - Screenshot capture timed out">>
      [] env = "nonzero" -> <<"[DEBUG] Capture tool: ERROR - Command failed with exit code">>
      [] env = "missing" -> <<"[DEBUG] Capture tool: ERROR - Screenshot file was not created">>
      [] env = "empty" -> <<"[DEBUG] Capture tool: ERROR - Screenshot file is empty">>
      [] OTHER -> <<"[DEBUG] Capture tool: Screenshot captured successfully!">>

\* The exception the attempt runs into: from NamedTemporaryFile or open (an
\* OSError), or from subprocess.run(cmd, capture_output=True, timeout=5, check=True).
RaisedInCapture(env) ==
    CASE env \in {"mktemp_error", "read_error"} -> "OSError"
      [] env = "not_found" -> "FileNotFoundError"
      [] env = "timeout" -> "TimeoutExpired"
      [] env = "nonzero" -> "CalledProcessError"
      [] OTHER -> "None"

\* Handlers for the three named exceptions only.
CaughtWhenNamed(t) == t \in {"TimeoutExpired", "CalledProcessError", "FileNotFoundError"}

\* The except clauses of the capture routine: TimeoutExpired,
\* CalledProcessError, FileNotFoundError, then Exception.
CaughtInCapture(t) ==
    t \in {"TimeoutExpired", "CalledProcessError", "FileNotFoundError"} \/ IsException(t)

\* One capture attempt, as both routines make it: create the scratch file, run
\* the import command with timeout=5 and check=True, check the file, encode it,
\* and in the finally clause unlink the scratch file when one was created.
\* `files` is the number of scratch files on disk.
CaptureAttempt(env, files, start, diagnostic, cleaned) ==
    LET created == env # "mktemp_error"
        f1 == IF created THEN files + 1 ELSE files
        ran == env \in {"missing", "empty", "read_error", "ok"}
        exists == created /\ env # "missing"
        f2 == IF env = "missing" THEN f1 - 1 ELSE f1
        f3 == IF created THEN Unlink(f2, exists) ELSE f2
        debug == <<start>> \o (IF created THEN <<<<"Temporary file created">>>> ELSE <<>>)
                 \o (IF ran THEN <<<<"Command completed successfully">>>> ELSE <<>>)
                 \o <<diagnostic>>
                 \o (IF created THEN <<cleaned>> ELSE <<>>)
        t == RaisedInCapture(env)
    IN  [payload |-> IF env = "ok" THEN "png" ELSE "None", debug |-> debug, files |-> f3,
         raised |-> IF t # "None" /\ ~CaughtInCapture(t) THEN t ELSE "None"]

\* screenshot_utils.capture_screenshot_base64(display, verbose=True)
CaptureScreenshotBase64(env, files) ==
    CaptureAttempt(env, files, <<"[DEBUG] screenshot_utils: Starting screenshot capture">>,
                   UtilsDiagnostic(env), <<"[DEBUG] screenshot_utils: Cleaned up temporary file">>)

\* RestrictedPythonExecutor's capture_screenshot_internal: the dictionary it returns.
RestrictedCaptureTool(env, files) ==
    LET r == CaptureScreenshotBase64(env, files)
    IN  [screenshot |-> r.payload, debug |-> r.debug, success |-> r.payload # "None",
         has_error |-> TRUE, files |-> r.files, raised |-> r.raised]

\* PyExecutor's capture_screenshot_internal: the dictionary it returns.
InterpreterCaptureTool(env, files) ==
    LET r == CaptureAttempt(env, files, <<"[DEBUG] Capture tool: Starting screenshot capture">>,
                            ToolDiagnostic(env), <<"[DEBUG] Capture tool: Cleaned up temporary file">>)
    IN  [screenshot |-> r.payload, debug |-> r.debug, success |-> r.payload # "None",
         has_error |-> env \in {"mktemp_error", "read_error", "not_found", "timeout", "nonzero"},
         files |-> r.files, raised |-> r.raised]

\* A raise that also discards the binding of x.
RaiseDiscardingBindings(e, x) == [e EXCEPT !.exc = x, !.ctx = Bind(@, "x", UNBOUND)]

Raise(e, x) == [e EXCEPT !.exc = x]

Write(e, piece) == [e EXCEPT !.out = Append(@, piece)]

\* An import that skips the gate when the top-level name is already bound.
ExecImportBoundName(backend, imports, e, name) ==
    IF e.ctx[Head(name)] = UNBOUND /\ ~ImportAllowed(backend, imports, name)
    THEN [e EXCEPT !.exc = Exc(IF backend = "restrictedpython" THEN "ImportError"
                                ELSE "InterpreterError",
                               <<<<"Import of">>, name, <<"is not allowed">>>>)]
    ELSE [e EXCEPT !.ctx = Bind(@, Head(name), "module")]

\* Whether the __import__ an import statement finds is the backend's gate: the
\* statement looks __import__ up in the builtins of the namespace.
ImportGated(backend, e) ==
    ~(backend = "restrictedpython" /\ e.ctx["__builtins__"] # "safe_builtins")

\* import name: the gate, then the real import, then the binding of the top-level name.
ExecImport(backend, imports, e, name) ==
    IF ImportGated(backend, e) /\ ~ImportAllowed(backend, imports, name)
    THEN Raise(e, Exc(IF backend = "restrictedpython" THEN "ImportError" ELSE "InterpreterError",
                      <<<<"Import of">>, name, <<"is not allowed">>>>))
    ELSE IF name \notin Installed
    THEN Raise(e, Exc("ModuleNotFoundError", <<name>>))
    ELSE [e EXCEPT !.ctx = Bind(@, Head(name), "module")]

\* print(v): when v is unbound, a NameError (restricted compile) or the
\* interpreter's error for an undefined variable; else the text goes to the
\* collector (restricted compile) or to the interpreter's logs.
ExecPrint(backend, e, v) ==
    IF e.ctx[v] = UNBOUND
    THEN IF backend = "restrictedpython"
         THEN Raise(e, Exc("NameError", <<<<v>>, <<"is not defined">>>>))
         ELSE Raise(e, Exc("InterpreterError", <<<<v>>, <<"is not defined">>>>))
    ELSE Write(e, <<e.ctx[v]>>)

WriteAll(e, pieces) == [e EXCEPT !.out = @ \o pieces]

Event(e, what) == [e EXCEPT !.events = Append(@, what)]

\* The part of the injected block that follows the call of the capture tool:
\* the tool's debug lines are printed, then the outcome.
ReportCapture(e, r, result_key, msg_key, screenshot_key) ==
    LET c1 == Bind(Bind(e.ctx, result_key, "dict"), msg_key, "debug")
        e2 == WriteAll([e EXCEPT !.ctx = c1, !.files = r.files], r.debug)
    IN  IF r.raised # "None"
        THEN Write([e EXCEPT !.files = r.files, !.tool_raised = r.raised],
                   <<"[Screenshot capture exception]">>)
        ELSE IF r.success
        THEN Write([e2 EXCEPT !.ctx = Bind(c1, screenshot_key, r.screenshot),
                              !.shot = r.screenshot],
                   <<"[Screenshot captured]">>)
        ELSE IF r.has_error
        THEN WriteAll(e2, << <<"[Screenshot capture failed]">>, <<"[Screenshot error]">> >>)
        ELSE Write(e2, <<"[Screenshot capture failed]">>)

\* The injected block of RestrictedPythonExecutor._inject_screenshot_capture.
ExecInjectionRestricted(e, env) ==
    LET e1 == Write(e, <<"[DEBUG] Screenshot capture: Starting auto-injected code">>)
    IN  IF e1.ctx["time"] # "module"
        THEN Raise(e1, Exc("AttributeError", <<<<"sleep">>>>))
        ELSE IF e1.sleep # "builtin"
        THEN Raise(e1, Exc("TypeError", <<<<"object is not callable">>>>))
        ELSE LET e2 == Write(Event(e1, "wait"),
                             <<"[DEBUG] Screenshot capture: Calling internal_capture_screenshot()">>)
             IN  IF e2.ctx["internal_capture_screenshot"] # "tool"
                 THEN Write(e2, <<"[Screenshot capture exception]">>)
                 ELSE ReportCapture(Event(e2, "capture"), RestrictedCaptureTool(env, e2.files),
                                    "capture_result", "msg", "screenshot")

\* The injected block of PyExecutor._inject_screenshot_capture.
ExecInjectionInterpreter(e, env) ==
    LET e1 == Write(e, <<"[DEBUG] Screenshot capture: Starting capture">>)
        c0 == Bind(e1.ctx, "time", "module")
        e2 == Write(Event([e1 EXCEPT !.ctx = c0], "wait"),
                    <<"[DEBUG] Screenshot capture: Calling _internal_capture_screenshot()">>)
    IN  IF e1.sleep # "builtin"
        THEN Raise([e1 EXCEPT !.ctx = c0],
                   Exc("InterpreterError", <<<<"object is not callable">>>>))
        ELSE IF e2.ctx["_internal_capture_screenshot"] # "tool"
        THEN Write(e2, <<"[Screenshot capture exception]">>)
        ELSE ReportCapture(Event(e2, "capture"), InterpreterCaptureTool(env, e2.files),
                           "_capture_result", "_msg", "_screenshot")

\* setattr(time, "sleep", None) in the restricted-compile backend: setattr is
\* the builtin itself, time is the module object every namespace starts with.
ExecSetAttrSleep(e) ==
    IF e.ctx["time"] = UNBOUND
    THEN Raise(e, Exc("NameError", <<<<"time">>, <<"is not defined">>>>))
    ELSE IF e.ctx["time"] # "module"
    THEN Raise(e, Exc("AttributeError", <<<<"sleep">>>>))
    ELSE [e EXCEPT !.sleep = "None"]

\* getattr(x, "__globals__"): the namespace dictionary itself when x is a
\* function defined by user code; update(...) then rebinds the entries named by
\* the statement: the guard names of the namespace, or __import__ of its builtins.
ExecRebind(e, s) ==
    IF e.ctx[s.var] = UNBOUND
    THEN Raise(e, Exc("NameError", <<<<s.var>>, <<"is not defined">>>>))
    ELSE IF e.ctx[s.var] # "function"
    THEN Raise(e, Exc("AttributeError", <<<<"__globals__">>>>))
    ELSE IF s.op = "rebind_guards"
    THEN [e EXCEPT !.ctx = [k \in Keys |-> IF k \in GuardKeys THEN s.val ELSE @[k]]]
    ELSE [e EXCEPT !.ctx = Bind(@, "__builtins__", s.val)]

\* One top-level statement, executed against the namespace.
ExecStmt(backend, imports, e, s, env) ==
    CASE s.op \in {"assign", "def"} -> [e EXCEPT !.ctx = Bind(@, s.var, s.val)]
      [] s.op = "print" -> ExecPrint(backend, e, s.var)
      [] s.op = "import" -> ExecImport(backend, imports, e, s.mod)
      [] s.op = "div0" -> Raise(e, Exc("ZeroDivisionError", <<<<"division by zero">>>>))
      [] s.op = "exit" -> Raise(e, Exc("SystemExit", <<>>))
      [] s.op = "policy" -> Raise(e, Exc("InterpreterError", <<<<"not allowed">>>>))
      [] s.op = "setattr" /\ backend = "restrictedpython" -> ExecSetAttrSleep(e)
      [] s.op \in {"rebind_guards", "rebind_builtins"} /\ backend = "restrictedpython" ->
            ExecRebind(e, s)
      [] s.op = "capture" ->
            IF backend = "restrictedpython"
            THEN ExecInjectionRestricted(e, env)
            ELSE ExecInjectionInterpreter(e, env)
      [] OTHER -> e

\* The statements run in order until one raises; the start of every user
\* statement is an event of the run.
RECURSIVE ExecFrom(_, _, _, _, _, _)
ExecFrom(backend, imports, e, code, i, env) ==
    IF i > Len(code) \/ e.exc.type # "None"
    THEN e
    ELSE LET e1 == IF code[i].op = "capture" THEN e ELSE Event(e, "statement")
         IN  ExecFrom(backend, imports, ExecStmt(backend, imports, e1, code[i], env),
                      code, i + 1, env)

\* traceback.format_exc()
Traceback(x) == <<<<"Traceback (most recent call last):">>, <<x.type>>>> \o x.args

NoResult == [stdout |-> <<>>, stderr |-> <<>>, exit_code |-> -1]

\* A result whose exit code is always 0.
CodeExecResultZero(out, err, code) == [stdout |-> out, stderr |-> err, exit_code |-> 0]

CodeExecResult(out, err, code) == [stdout |-> out, stderr |-> err, exit_code |-> code]

\* ------------------------------------------------- RestrictedPythonExecutor

\* An injection that puts the capture block before the user's code.
InjectCaptureFirst(code) == <<Injection>> \o code

\* _inject_screenshot_capture: the source text with the capture block appended.
InjectScreenshotCapture(code) == code \o <<Injection>>

\* A compile step that rejects only the constructs of the policy.
CompilePolicyOnly(code) == HasOp(code, "policy")

\* A compile step that rejects only malformed source.
CompileSyntaxOnly(code) == HasOp(code, "syntax")

\* compile_restricted raises SyntaxError for malformed source and for a
\* construct the policy rejects.
CompileRestrictedFails(code) == HasOp(code, "syntax") \/ HasOp(code, "policy")

CompileErrorText(code) ==
    IF HasOp(code, "syntax") THEN <<"invalid syntax">> ELSE <<"construct is not allowed">>

\* The compiled module starts with _print = _print_(_getattr_) when it prints.
UsesPrint(code) == HasOp(code, "print") \/ HasOp(code, "capture")

\* A run() that starts every submission from a fresh namespace.
PrepareFreshContext(c, capture) ==
    LET c1 == IF capture
              THEN Bind(RestrictedContext, "internal_capture_screenshot", "tool")
              ELSE RestrictedContext
    IN  Guards(Bind(c1, "_print_", "PrintCollector"))

\* What run() does to the namespace before it compiles: the capture tool (when a
\* screenshot is requested), the PrintCollector class and the guard table.
PrepareContext(c, capture) ==
    LET c1 == IF capture THEN Bind(c, "internal_capture_screenshot", "tool") ELSE c
    IN  Guards(Bind(c1, "_print_", "PrintCollector"))

\* The text run() returns as stdout after a successful exec: the redirected
\* stream's text followed by what the collector bound to _print returns.
CombinedStdout(from_sys, e) ==
    LET from_print == IF e.ctx["_print"] # UNBOUND THEN e.out ELSE <<>>
    IN  from_sys \o from_print

\* RestrictedPythonExecutor.run
RestrictedRun(c, coll, files, imports, code, capture, env, sleep) ==
    LET code1 == IF capture THEN InjectScreenshotCapture(code) ELSE code
        c2 == PrepareContext(c, capture)
        from_sys == <<>>
    IN  IF CompileRestrictedFails(code1)
        THEN [ctx |-> c2, collector |-> coll, shot |-> "None", raised |-> "None",
              events |-> <<>>, files |-> files, sleep |-> sleep, tool_raised |-> "None",
              result |-> CodeExecResult(<<>>, <<<<"Compilation Error:">>, CompileErrorText(code1)>>, 1)]
        ELSE LET e0 == IF UsesPrint(code1)
                       THEN [ctx |-> Bind(c2, "_print", "collector"), out |-> <<>>,
                             exc |-> NoExc, shot |-> "None", events |-> <<>>, files |-> files, sleep |-> sleep, tool_raised |-> "None"]
                       ELSE [ctx |-> c2, out |-> coll, exc |-> NoExc, shot |-> "None",
                             events |-> <<>>, files |-> files, sleep |-> sleep, tool_raised |-> "None"]
                 e == ExecFrom("restrictedpython", imports, e0, code1, 1, env)
             IN  IF e.exc.type = "None"
                 THEN [ctx |-> e.ctx, collector |-> e.out, shot |-> e.shot, events |-> e.events, files |-> e.files, sleep |-> e.sleep,
                       tool_raised |-> e.tool_raised, raised |-> "None",
                       result |-> CodeExecResult(CombinedStdout(from_sys, e), <<>>, 0)]
                 ELSE IF IsException(e.exc.type)
                 THEN [ctx |-> e.ctx, collector |-> e.out, shot |-> e.shot, events |-> e.events, files |-> e.files, sleep |-> e.sleep,
                       tool_raised |-> e.tool_raised, raised |-> "None",
                       result |-> CodeExecResult(from_sys, <<<<"\n">>>> \o Traceback(e.exc), 1)]
                 ELSE [ctx |-> e.ctx, collector |-> e.out, shot |-> e.shot, events |-> e.events, files |-> e.files, sleep |-> e.sleep,
                       tool_raised |-> e.tool_raised,
                       raised |-> e.exc.type, result |-> NoResult]

\* ------------------------------------------------------------- PyExecutor

\* The value of the last statement the interpreter evaluated.
OutputValue(e, code) ==
    LET s == code[Len(code)]
    IN  IF s.op \in {"assign", "def"} THEN s.val ELSE "None"

\* The exit code PyExecutor.run derives from the interpreter's result object.
DeriveExitCode(r, stderr_parts) ==
    IF r.has_exit_code
    THEN (IF r.exit_code_is_none THEN 0 ELSE r.exit_code)
    ELSE IF r.has_success
    THEN (IF r.success THEN 0 ELSE 1)
    ELSE (IF stderr_parts # <<>> THEN 1 ELSE 0)

\* The result object of the interpreter: logs and output, no exit_code,
\* success, error or exception attribute.
InterpreterResult(e, code) ==
    [logs |-> e.out, output |-> OutputValue(e, code), error |-> <<>>, exception |-> <<>>,
     has_exit_code |-> FALSE, exit_code_is_none |-> FALSE, exit_code |-> 0,
     has_success |-> FALSE, success |-> TRUE]

\* The CodeExecResult PyExecutor.run composes from the result object.
ComposeResult(r) ==
    LET stdout_parts == r.logs \o (IF r.output # "None" THEN <<<<r.output>>>> ELSE <<>>)
        stderr_parts == r.error \o r.exception
    IN  CodeExecResult(stdout_parts, stderr_parts, DeriveExitCode(r, stderr_parts))

\* What PyExecutor.run makes of the call self._executor(code): the composed
\* result when the call returned r, the traceback with exit code 1 when it
\* raised what "except Exception" catches, and no result when it raised
\* anything else.
CallOutcome(exc, r) ==
    IF exc.type = "None"
    THEN [raised |-> "None", result |-> ComposeResult(r)]
    ELSE IF IsException(exc.type)
    THEN [raised |-> "None", result |-> CodeExecResult(<<>>, Traceback(exc), 1)]
    ELSE [raised |-> exc.type, result |-> NoResult]

\* PyExecutor.run
InterpreterRun(c, files, imports, code, capture, env, sleep) ==
    LET code1 == IF capture THEN InjectScreenshotCapture(code) ELSE code
    IN  IF HasOp(code1, "syntax")
        THEN [ctx |-> c, collector |-> <<>>, shot |-> "None", raised |-> "None",
              events |-> <<>>, files |-> files, sleep |-> sleep, tool_raised |-> "None",
              result |-> CodeExecResult(<<>>, Traceback(Exc("InterpreterError",
                                                           <<<<"Code parsing failed">>>>)), 1)]
        ELSE LET e0 == [ctx |-> c, out |-> <<>>, exc |-> NoExc, shot |-> "None",
                       events |-> <<>>, files |-> files, sleep |-> sleep, tool_raised |-> "None"]
                 e == ExecFrom("smolagents", imports, e0, code1, 1, env)
                 o == CallOutcome(e.exc, InterpreterResult(e, code1))
             IN  [ctx |-> e.ctx, collector |-> <<>>, shot |-> e.shot, events |-> e.events,
                  files |-> e.files, sleep |-> e.sleep, tool_raised |-> e.tool_raised,
                  raised |-> o.raised, result |-> o.result]

\* The result objects an interpreter may return: logs, output, error and
\* exception present or empty; exit_code absent, None or an integer; success
\* absent, true or false.
ExecResults ==
    { r \in [logs : {<<>>, <<<<"10">>>>}, output : {"None", "10"},
             error : {<<>>, <<<<"error text">>>>}, exception : {<<>>, <<<<"exception text">>>>},
             has_exit_code : BOOLEAN, exit_code_is_none : BOOLEAN, exit_code : 0..MaxExitCode,
             has_success : BOOLEAN, success : BOOLEAN, raises : {"None"}] :
        /\ ~r.has_exit_code => (~r.exit_code_is_none /\ r.exit_code = 0)
        /\ r.exit_code_is_none => r.exit_code = 0
        /\ ~r.has_success => r.success }

\* The result object of a call that has not been made, or that raised.
NoExecResult ==
    [logs |-> <<>>, output |-> "None", error |-> <<>>, exception |-> <<>>,
     has_exit_code |-> FALSE, exit_code_is_none |-> FALSE, exit_code |-> 0,
     has_success |-> FALSE, success |-> TRUE, raises |-> "None"]

\* What the call self._executor(code) may raise.
CallRaises == {"InterpreterError", "SystemExit"}

\* The outcomes of the call self._executor(code).
CallOutcomes == ExecResults \cup {[NoExecResult EXCEPT !.raises = x] : x \in CallRaises}

\* The threads of the process that call run().
Threads == {"A", "B"}

\* The streams the process starts with.
OriginalStreams == [stdout |-> <<"sys.stdout", "process">>, stderr |-> <<"sys.stderr", "process">>]

\* The StringIO buffers a restricted-compile run installs.
CaptureStreams == [stdout |-> <<"stdout_capture", "run">>, stderr |-> <<"stderr_capture", "run">>]

\* The way a run was left: by the return of the compile error, by the return
\* after exec, by the return of the exception handler, or by an exception the
\* handler does not catch.
ExitPath(r) ==
    IF r.raised # "None" THEN "escaped"
    ELSE IF r.result.exit_code = 0 THEN "success"
    ELSE IF r.events = <<>> THEN "compile_error"
    ELSE "exception"

\* A restoration placed after exec instead of in a finally block.
RestoreAfterExec(old, installed, path) == IF path = "success" THEN old ELSE installed

\* finally: sys.stdout = old_stdout; sys.stderr = old_stderr
RestoreStreams(old, installed, path) == old

\* The process-wide streams when run returns: the restricted-compile run saves
\* them, installs its buffers and restores; the interpreted run leaves them alone.
StreamsAfterRun(backend, streams, r) ==
    IF backend = "restrictedpython"
    THEN RestoreStreams(streams, CaptureStreams, ExitPath(r))
    ELSE streams

\* The whitelist the backend instance is constructed with.
ConfiguredWhitelist(backend, imports) ==
    IF backend = "restrictedpython" THEN imports ELSE AllImports(imports)

\* ExecutorBackend.run, dispatched on the backend the controller created.
Run(backend, c, coll, files, imports, code, capture, env, sleep) ==
    IF backend = "restrictedpython"
    THEN RestrictedRun(c, coll, files, imports, code, capture, env, sleep)
    ELSE InterpreterRun(c, files, imports, code, capture, env, sleep)

\* --------------------------------------------------------- PythonCodeActEnv

\* A clear_screenshot that leaves the stored frame in place.
KeepScreenshot(stored) == stored

\* clear_screenshot, called at the start of every run
ClearScreenshot(stored) == "None"

\* get_captured_screenshot after a run: run() cleared the stored frame, then
\* the capture tool stored its payload if it had one.
GetCapturedScreenshot(stored, r) ==
    IF r.shot # "None" THEN r.shot ELSE ClearScreenshot(stored)

\* The backend names a caller may pass to the constructor.
Selectors == Backends \cup {"docker"}

\* A _create_executor that takes every name.
AnyBackendValid(backend) == TRUE

\* _create_executor: any name but the two backends' raises ValueError.
ValidBackend(backend) == backend \in {"smolagents", "restrictedpython"}

\* The constructor returned a controller.
Constructed == ~(last.op = "init" /\ last.raised # "None")

\* _create_executor: a new backend instance with a fresh namespace.
CreateExecutor(backend) ==
    IF backend = "restrictedpython" THEN RestrictedContext ELSE InterpreterContext

NoObservation == [stdout |-> <<>>, stderr |-> <<>>, exit_code |-> 0, screenshot |-> "None"]

NoCode == <<>>

\* The last call was a submission that failed: it raised out of step(), returned
\* exit_code 1, or asked for a frame and got none.
Failed(l) ==
    /\ l.op = "step"
    /\ \/ l.raised # "None"
       \/ l.obs.exit_code = 1
       \/ l.capture /\ l.obs.screenshot = "None"

\* The record of a controller call.
Call(op, code, capture, env, raised, obs, events, tool_raised) ==
    [op |-> op, code |-> code, capture |-> capture, env |-> env, pre |-> ctx,
     raised |-> raised, obs |-> obs, events |-> events, tool_raised |-> tool_raised,
     prev_failed |-> Failed(last), pre_shot |-> captured_screenshot]

\* app.py builds the controller from ADDITIONAL_IMPORTS alone:
\* PythonCodeActEnv(additional_imports=additional_imports), so executor_backend
\* takes its default.
AppBackend == "smolagents"

\* app.py always appends tkinter to the list it parsed.
AppImports(imports) == imports \cup {tkinter}

\* The whitelists given to the client's from_docker_image.
ClientWhitelists == { {os, numpy} }

\* ------------------------------------------- the whitelist, client to server

\* The value of an environment variable is a text: a sequence of pieces, the
\* comma and the blank being pieces of their own.  A variable that is not set
\* reads as the empty text.
Comma == ","

Blank == " "

\* Module names without commas or surrounding whitespace.
ImportNames == {numpy, tkinter, <<"scipy">>}

\* The lists of at most n elements of S.
ListsOf(S, n) == UNION {[1..k -> S] : k \in 0..n}

\* ",".join(additional_imports)
RECURSIVE Join(_)
Join(L) ==
    IF L = <<>> THEN <<>>
    ELSE IF Len(L) = 1 THEN L[1]
    ELSE L[1] \o <<Comma>> \o Join(Tail(L))

\* additional_imports_env.split(",")
RECURSIVE Split(_)
Split(text) ==
    IF \A i \in 1..Len(text) : text[i] # Comma
    THEN <<text>>
    ELSE LET i == CHOOSE j \in 1..Len(text) :
                      text[j] = Comma /\ \A k \in 1..(j - 1) : text[k] # Comma
         IN  <<SubSeq(text, 1, i - 1)>> \o Split(SubSeq(text, i + 1, Len(text)))

\* imp.strip()
RECURSIVE Strip(_)
Strip(text) ==
    IF text # <<>> /\ Head(text) = Blank THEN Strip(Tail(text))
    ELSE IF text # <<>> /\ text[Len(text)] = Blank THEN Strip(SubSeq(text, 1, Len(text) - 1))
    ELSE text

\* A text that is true as a condition.
Truthy(text) == text # <<>>

\* additional_imports.append("tkinter"), whatever the list holds.
AlwaysWithTkinter(list) == Append(list, tkinter)

\* if "tkinter" not in additional_imports: additional_imports.append("tkinter")
WithTkinter(list) ==
    IF \E i \in 1..Len(list) : list[i] = tkinter THEN list ELSE Append(list, tkinter)

\* app.py: the list it gives to PythonCodeActEnv, from the value of ADDITIONAL_IMPORTS.
ParseImports(value) ==
    LET parts == Split(value)
        stripped == [i \in 1..Len(parts) |-> Strip(parts[i])]
    IN  WithTkinter(IF Truthy(value) THEN SelectSeq(stripped, Truthy) ELSE <<>>)

\* No variable set.
NoEnvVars == [ADDITIONAL_IMPORTS |-> <<>>, EXECUTOR_BACKEND |-> ""]

\* The env_vars a caller of from_docker_image passes by keyword.
CallerEnvVars ==
    {NoEnvVars,
     [NoEnvVars EXCEPT !.EXECUTOR_BACKEND = "restrictedpython"],
     [NoEnvVars EXCEPT !.ADDITIONAL_IMPORTS = <<Blank, "pandas", Comma, Comma, "scipy", Blank>>]}

\* The calls of CodingEnv.from_docker_image.
ClientCalls ==
    [additional_imports : ListsOf(ImportNames, MaxListLen), executor_backend : Backends,
     env_vars : CallerEnvVars]

\* No call yet.
NoClientCall ==
    [additional_imports |-> <<>>, executor_backend |-> "smolagents", env_vars |-> NoEnvVars]

\* CodingEnv.from_docker_image: the env_vars it passes on.
EnvVarsOf(call) ==
    LET e1 == IF call.additional_imports # <<>>
              THEN [call.env_vars EXCEPT !.ADDITIONAL_IMPORTS = Join(call.additional_imports)]
              ELSE call.env_vars
    IN  [e1 EXCEPT !.EXECUTOR_BACKEND = call.executor_backend]

\* PythonCodeActEnv.__init__, called directly with executor_backend = selector,
\* or by app.py in the container the client started with EXECUTOR_BACKEND = selector.
Init ==
    /\ created_via \in {"direct", "server"}
    /\ selector \in IF created_via = "direct" THEN Selectors ELSE Backends
    /\ backend_name = IF created_via = "direct" THEN selector ELSE AppBackend
    /\ additional_imports \in
          IF created_via = "direct" THEN Whitelists
          ELSE {AppImports(w) : w \in ClientWhitelists}
    /\ ctx = IF ValidBackend(backend_name) THEN CreateExecutor(backend_name) ELSE Empty
    /\ collector = <<>>
    /\ captured_screenshot = "None"
    /\ episode_id = 0
    /\ step_count = 0
    /\ last_exit_code = 0
    /\ next_uuid = 1
    /\ runs = 0
    /\ executor = 0
    /\ accepted = 0
    /\ scratch_files = 0
    /\ time_sleep = "builtin"
    /\ sys_streams = OriginalStreams
    /\ ctx_b = ctx
    /\ collector_b = <<>>
    /\ step_count_b = 0
    /\ alone_ctx = ctx
    /\ alone_collector = <<>>
    /\ alone_sleep = "builtin"
    /\ alone_obs = NoObservation
    /\ pc = [t \in Threads |-> "idle"]
    /\ old_streams = [t \in Threads |-> OriginalStreams]
    /\ captured = [t \in Threads |-> <<>>]
    /\ returned_stdout = [t \in Threads |-> <<>>]
    /\ thread_runs = [t \in Threads |-> 0]
    /\ render_wanted = "default"
    /\ render_waited = "none"
    /\ exec_result = NoExecResult
    /\ derived = [stage |-> "idle", raised |-> "None", result |-> NoResult]
    /\ client_call = NoClientCall
    /\ container_env = NoEnvVars
    /\ app_imports = <<>>
    /\ deploy_pc = "idle"
    /\ last = [op |-> "init", code |-> NoCode, capture |-> FALSE, env |-> "ok", pre |-> ctx,
               raised |-> IF ValidBackend(backend_name) THEN "None" ELSE "ValueError",
               obs |-> NoObservation, events |-> <<>>,
               tool_raised |-> "None", prev_failed |-> FALSE, pre_shot |-> "None"]

\* A reset that keeps the executor, and with it the namespace.
ResetKeepsExecutor ==
    /\ Constructed
    /\ next_uuid <= MaxEpisodes
    /\ episode_id' = next_uuid
    /\ next_uuid' = next_uuid + 1
    /\ step_count' = 0
    /\ last_exit_code' = 0
    /\ accepted' = 0
    /\ last' = Call("reset", NoCode, FALSE, "ok", "None", NoObservation, <<>>, "None")
    /\ UNCHANGED <<backend_name, additional_imports, runs, ctx, collector,
                   captured_screenshot, selector, created_via, executor, scratch_files,
                   time_sleep, sys_streams>>
    /\ UNCHANGED <<session_b, alone, threads, grace, interpreter_call, deployment>>

\* A reset that keeps the last exit code of the episode it ends.
ResetKeepsExitCode ==
    /\ Constructed
    /\ next_uuid <= MaxEpisodes
    /\ episode_id' = next_uuid
    /\ next_uuid' = next_uuid + 1
    /\ step_count' = 0
    /\ accepted' = 0
    /\ executor' = executor + 1
    /\ ctx' = CreateExecutor(backend_name)
    /\ collector' = <<>>
    /\ captured_screenshot' = "None"
    /\ last' = Call("reset", NoCode, FALSE, "ok", "None",
                    [NoObservation EXCEPT !.exit_code = last_exit_code], <<>>, "None")
    /\ UNCHANGED <<backend_name, additional_imports, runs, selector, created_via,
                   scratch_files, last_exit_code, time_sleep, sys_streams>>
    /\ UNCHANGED <<session_b, alone, threads, grace, interpreter_call, deployment>>

\* A reset that builds the executor of the default backend.
ResetToDefaultBackend ==
    /\ Constructed
    /\ next_uuid <= MaxEpisodes
    /\ episode_id' = next_uuid
    /\ next_uuid' = next_uuid + 1
    /\ step_count' = 0
    /\ last_exit_code' = 0
    /\ accepted' = 0
    /\ executor' = executor + 1
    /\ backend_name' = "smolagents"
    /\ ctx' = CreateExecutor("smolagents")
    /\ collector' = <<>>
    /\ captured_screenshot' = "None"
    /\ last' = Call("reset", NoCode, FALSE, "ok", "None", NoObservation, <<>>, "None")
    /\ UNCHANGED <<additional_imports, runs, selector, created_via, scratch_files,
                   time_sleep, sys_streams>>
    /\ UNCHANGED <<session_b, alone, threads, grace, interpreter_call, deployment>>

\* PythonCodeActEnv.reset
Reset ==
    /\ Constructed
    /\ next_uuid <= MaxEpisodes
    /\ episode_id' = next_uuid
    /\ next_uuid' = next_uuid + 1
    /\ step_count' = 0
    /\ last_exit_code' = 0
    /\ accepted' = 0
    /\ executor' = executor + 1
    /\ ctx' = CreateExecutor(backend_name)
    /\ collector' = <<>>
    /\ captured_screenshot' = "None"
    /\ last' = Call("reset", NoCode, FALSE, "ok", "None", NoObservation, <<>>, "None")
    /\ UNCHANGED <<backend_name, additional_imports, runs, selector, created_via,
                   scratch_files, time_sleep, sys_streams>>
    /\ UNCHANGED <<session_b, alone, threads, grace, interpreter_call, deployment>>

\* A step that throws the executor away when the submission fails.
StepWithTeardown(code, capture, env) ==
    /\ Constructed
    /\ runs < MaxRuns
    /\ \E r \in {Run(backend_name, ctx, collector, scratch_files, additional_imports,
                     code, capture, env, time_sleep)} :
        /\ runs' = runs + 1
        /\ accepted' = accepted + 1
        /\ collector' = r.collector
        /\ captured_screenshot' = GetCapturedScreenshot(captured_screenshot, r)
        /\ scratch_files' = r.files
        /\ time_sleep' = r.sleep
        /\ sys_streams' = StreamsAfterRun(backend_name, sys_streams, r)
        /\ IF r.raised = "None"
           THEN /\ step_count' = step_count + 1
                /\ last_exit_code' = r.result.exit_code
                /\ ctx' = IF r.result.exit_code = 0 THEN r.ctx
                          ELSE CreateExecutor(backend_name)
                /\ executor' = IF r.result.exit_code = 0 THEN executor ELSE executor + 1
                /\ last' = Call("step", code, capture, env, "None",
                                [stdout |-> r.result.stdout, stderr |-> r.result.stderr,
                                 exit_code |-> r.result.exit_code,
                                 screenshot |-> IF capture
                                                THEN GetCapturedScreenshot(captured_screenshot, r)
                                                ELSE "None"],
                                r.events, r.tool_raised)
           ELSE /\ UNCHANGED <<step_count, last_exit_code>>
                /\ ctx' = CreateExecutor(backend_name)
                /\ executor' = executor + 1
                /\ last' = Call("step", code, capture, env, r.raised, NoObservation, r.events,
                                r.tool_raised)
        /\ UNCHANGED <<backend_name, additional_imports, episode_id, next_uuid,
                       selector, created_via>>

\* PythonCodeActEnv.step with a CodeAction
StepWith(code, capture, env) ==
    /\ Constructed
    /\ runs < MaxRuns
    /\ \E r \in {Run(backend_name, ctx, collector, scratch_files, additional_imports,
                     code, capture, env, time_sleep)} :
        /\ runs' = runs + 1
        /\ accepted' = accepted + 1
        /\ ctx' = r.ctx
        /\ collector' = r.collector
        /\ captured_screenshot' = GetCapturedScreenshot(captured_screenshot, r)
        /\ scratch_files' = r.files
        /\ time_sleep' = r.sleep
        /\ sys_streams' = StreamsAfterRun(backend_name, sys_streams, r)
        /\ IF r.raised = "None"
           THEN /\ step_count' = step_count + 1
                /\ last_exit_code' = r.result.exit_code
                /\ last' = Call("step", code, capture, env, "None",
                                [stdout |-> r.result.stdout, stderr |-> r.result.stderr,
                                 exit_code |-> r.result.exit_code,
                                 screenshot |-> IF capture
                                                THEN GetCapturedScreenshot(captured_screenshot, r)
                                                ELSE "None"],
                                r.events, r.tool_raised)
           ELSE /\ UNCHANGED <<step_count, last_exit_code>>
                /\ last' = Call("step", code, capture, env, r.raised, NoObservation, r.events,
                                r.tool_raised)
        /\ UNCHANGED <<backend_name, additional_imports, episode_id, next_uuid,
                       selector, created_via, executor>>

\* A rejection that counts as a step.
StepNotCodeActionCounted ==
    /\ Constructed
    /\ last' = Call("rejected", NoCode, FALSE, "ok", "ValueError", NoObservation, <<>>, "None")
    /\ step_count' = (step_count + 1) % (MaxRuns + 2)
    /\ UNCHANGED <<backend_name, additional_imports, ctx, collector, captured_screenshot,
                   episode_id, last_exit_code, next_uuid, runs,
                   selector, created_via, executor, accepted, scratch_files,
                   time_sleep, sys_streams>>
    /\ UNCHANGED <<session_b, alone, threads, grace, interpreter_call, deployment>>

\* PythonCodeActEnv.step with an action that is not a CodeAction: ValueError is
\* raised before the executor is called.
StepNotCodeAction ==
    /\ Constructed
    /\ last' = Call("rejected", NoCode, FALSE, "ok", "ValueError", NoObservation, <<>>, "None")
    /\ UNCHANGED <<backend_name, additional_imports, ctx, collector, captured_screenshot,
                   episode_id, step_count, last_exit_code, next_uuid, runs,
                   selector, created_via, executor, accepted, scratch_files,
                   time_sleep, sys_streams>>
    /\ UNCHANGED <<session_b, alone, threads, grace, interpreter_call, deployment>>

\* The grace periods a caller may want: run's default, or two seconds.
GracePeriods == {"default", "2.0"}

\* The default of run's parameter render_timeout.
DefaultRenderTimeout == "0.5"

\* CodeAction has the fields code and capture_screenshot: a grace period has no
\* field to travel in.
CodeActionOf(code, capture, wanted) == [code |-> code, capture_screenshot |-> capture]

\* The render_timeout of the run step() starts:
\* run(action.code, capture_screenshot=action.capture_screenshot) passes none,
\* so it is the default.
RenderTimeout(action) == DefaultRenderTimeout

\* step(CodeAction(code))
Step ==
    /\ \E code \in Programs : StepWith(code, FALSE, "ok")
    /\ UNCHANGED <<session_b, alone, threads, grace, interpreter_call, deployment>>

\* step(CodeAction(code, capture_screenshot=True)), in an environment that
\* decides how the capture attempt goes.
StepCapture ==
    /\ \E code \in CapturePrograms, env \in CaptureEnvs : StepWith(code, TRUE, env)
    /\ \E wanted \in (IF last'.env = "ok" THEN GracePeriods ELSE {"default"}) :
          /\ render_wanted' = wanted
          /\ render_waited' = IF \E i \in 1..Len(last'.events) : last'.events[i] = "wait"
                              THEN RenderTimeout(CodeActionOf(last'.code, TRUE, wanted))
                              ELSE "none"
    /\ UNCHANGED <<session_b, alone, threads, interpreter_call, deployment>>

Next == Reset \/ Step \/ StepCapture \/ StepNotCodeAction

Spec == Init /\ [][Next]_vars

\* ------------------------------------------- two controllers in one process

\* What the callers of the two controllers submit.
SessionPrograms == {<<Assign("x", "10")>>, <<PrintVar("x")>>, <<SetAttrSleep>>}

\* What they submit with capture_screenshot=True.
SessionCapturePrograms == {<<Assign("x", "10")>>}

\* The observation step() builds from the result of run.
Observation(stored, r, capture) ==
    [stdout |-> r.result.stdout, stderr |-> r.result.stderr,
     exit_code |-> r.result.exit_code,
     screenshot |-> IF capture THEN GetCapturedScreenshot(stored, r) ELSE "None"]

\* Two PythonCodeActEnv(additional_imports, executor_backend="restrictedpython")
\* constructed in one process.
InitSessions ==
    /\ Init
    /\ selector = "restrictedpython"
    /\ created_via = "direct"
    /\ additional_imports = {os, numpy}

\* step() of the first controller; the same submission is given to the same
\* controller in a process of its own.
SubmitA(code, capture) ==
    /\ StepWith(code, capture, "ok")
    /\ \E r \in {Run(backend_name, alone_ctx, alone_collector, 0, additional_imports,
                     code, capture, "ok", alone_sleep)} :
          /\ alone_ctx' = r.ctx
          /\ alone_collector' = r.collector
          /\ alone_sleep' = r.sleep
          /\ alone_obs' = Observation("None", r, capture)
    /\ UNCHANGED <<session_b, threads, grace, interpreter_call, deployment>>

\* step() of the second controller
SubmitB(code, capture) ==
    /\ step_count_b < MaxRuns
    /\ \E r \in {Run(backend_name, ctx_b, collector_b, scratch_files, additional_imports,
                     code, capture, "ok", time_sleep)} :
          /\ ctx_b' = r.ctx
          /\ collector_b' = r.collector
          /\ step_count_b' = step_count_b + 1
          /\ scratch_files' = r.files
          /\ time_sleep' = r.sleep
          /\ sys_streams' = StreamsAfterRun(backend_name, sys_streams, r)
    /\ UNCHANGED <<session_a, alone, threads, grace, interpreter_call, deployment>>

StepA == \E code \in SessionPrograms : SubmitA(code, FALSE)

CaptureA == \E code \in SessionCapturePrograms : SubmitA(code, TRUE)

StepB == \E code \in SessionPrograms : SubmitB(code, FALSE)

CaptureB == \E code \in SessionCapturePrograms : SubmitB(code, TRUE)

NextSessions == StepA \/ CaptureA \/ StepB \/ CaptureB

SpecSessions == InitSessions /\ [][NextSessions]_vars

\* ------------------------------------------ one call of the interpreter

\* PyExecutor(additional_imports)
InitDerive ==
    /\ Init
    /\ selector = "smolagents"
    /\ created_via = "direct"

\* exec_result = self._executor(code): the call returns a result object or raises.
CallInterpreter ==
    /\ derived.stage = "idle"
    /\ exec_result' \in CallOutcomes
    /\ derived' = [derived EXCEPT !.stage = "called"]
    /\ UNCHANGED <<session_a, session_b, alone, threads, grace, deployment,
                   scratch_files, time_sleep, sys_streams>>

\* The rest of run: the parts of stdout and stderr, the exit code, the result.
ComposeCall ==
    /\ derived.stage = "called"
    /\ \E o \in {CallOutcome(Exc(exec_result.raises, <<>>), exec_result)} :
          derived' = [stage |-> "done", raised |-> o.raised, result |-> o.result]
    /\ UNCHANGED <<session_a, session_b, alone, threads, grace, deployment,
                   scratch_files, time_sleep, sys_streams, exec_result>>

NextDerive == CallInterpreter \/ ComposeCall

SpecDerive == InitDerive /\ [][NextDerive]_vars

\* ------------------------------------------------ deployment by the client

\* The module of app.py has not been loaded; its controller is the one Init describes.
InitDeploy ==
    /\ Init
    /\ created_via = "server"
    /\ selector = "smolagents"

\* CodingEnv.from_docker_image(image, additional_imports=..., executor_backend=...,
\* env_vars=...): the container is started with the env_vars the client composed.
FromDockerImage ==
    /\ deploy_pc = "idle"
    /\ \E call \in ClientCalls :
          /\ client_call' = call
          /\ container_env' = EnvVarsOf(call)
    /\ deploy_pc' = "started"
    /\ UNCHANGED <<session_a, session_b, alone, threads, grace, interpreter_call,
                   scratch_files, time_sleep, sys_streams, app_imports>>

\* app.py, loaded in the container: ADDITIONAL_IMPORTS is read and parsed.
AppStart ==
    /\ deploy_pc = "started"
    /\ app_imports' = ParseImports(container_env.ADDITIONAL_IMPORTS)
    /\ deploy_pc' = "serving"
    /\ UNCHANGED <<session_a, session_b, alone, threads, grace, interpreter_call,
                   scratch_files, time_sleep, sys_streams, client_call, container_env>>

NextDeploy == FromDockerImage \/ AppStart

SpecDeploy == InitDeploy /\ [][NextDeploy]_vars

\* ------------------------------------- submissions that reach the namespace

\* What the caller of a restricted-compile session submits.
GuardPrograms ==
    {<<Def("x")>>, <<Assign("x", "10")>>, <<RebindGuards>>, <<RebindBuiltinsImport>>,
     <<Def("x"), RebindGuards>>, <<Def("x"), RebindBuiltinsImport>>}
    \cup {<<Import(m)>> : m \in ImportTargets}

\* PythonCodeActEnv(additional_imports, executor_backend="restrictedpython")
InitGuards ==
    /\ Init
    /\ selector = "restrictedpython"
    /\ created_via = "direct"

StepGuards ==
    /\ \E code \in GuardPrograms : StepWith(code, FALSE, "ok")
    /\ UNCHANGED <<session_b, alone, threads, grace, interpreter_call, deployment>>

NextGuards == StepGuards \/ Reset

SpecGuards == InitGuards /\ [][NextGuards]_vars

\* ------------------------------ concurrent runs of two restricted executors

\* The StringIO buffers the run of thread t creates.
BufferOf(t) == [stdout |-> <<"stdout_capture", t>>, stderr |-> <<"stderr_capture", t>>]

\* The ways a run leaves its try block by a return.
ReturnPaths == {"success", "compile_error", "exception"}

\* Two RestrictedPythonExecutor instances in one process, each run by a thread
\* of its own.
InitThreads ==
    /\ Init
    /\ selector = "restrictedpython"
    /\ created_via = "direct"
    /\ additional_imports = {os, numpy}

\* run, up to the redirection: old_stdout = sys.stdout, old_stderr = sys.stderr,
\* two new buffers, sys.stdout = stdout_capture, sys.stderr = stderr_capture.
Redirect(t) ==
    /\ pc[t] = "idle"
    /\ thread_runs[t] < MaxRuns
    /\ thread_runs' = [thread_runs EXCEPT ![t] = @ + 1]
    /\ old_streams' = [old_streams EXCEPT ![t] = sys_streams]
    /\ captured' = [captured EXCEPT ![t] = <<>>]
    /\ sys_streams' = BufferOf(t)
    /\ pc' = [pc EXCEPT ![t] = "redirected"]
    /\ UNCHANGED <<returned_stdout, session_a, session_b, alone, grace, interpreter_call, deployment,
                   scratch_files, time_sleep>>

\* run, from the compilation to the end of exec.  Code that was compiled and
\* writes to sys.stdout (help(len), say: help is one of the builtins) writes to
\* the object bound to sys.stdout at that moment.
Execute(t) ==
    /\ pc[t] = "redirected"
    /\ \E path \in ReturnPaths :
          /\ pc' = [pc EXCEPT ![t] = path]
          /\ captured' =
                IF path # "compile_error" /\ \E u \in Threads : sys_streams = BufferOf(u)
                THEN [u \in Threads |->
                         IF sys_streams = BufferOf(u) THEN Append(captured[u], t)
                         ELSE captured[u]]
                ELSE captured
    /\ UNCHANGED <<sys_streams, old_streams, returned_stdout, thread_runs,
                   session_a, session_b, alone, grace, interpreter_call, deployment, scratch_files, time_sleep>>

\* run, from the composition of the result to the end of the finally block.
Return(t) ==
    /\ pc[t] \in ReturnPaths
    /\ returned_stdout' =
          [returned_stdout EXCEPT ![t] = IF pc[t] = "compile_error" THEN <<>> ELSE captured[t]]
    /\ sys_streams' = RestoreStreams(old_streams[t], BufferOf(t), pc[t])
    /\ pc' = [pc EXCEPT ![t] = "idle"]
    /\ UNCHANGED <<old_streams, captured, thread_runs,
                   session_a, session_b, alone, grace, interpreter_call, deployment, scratch_files, time_sleep>>

NextThreads == \E t \in Threads : Redirect(t) \/ Execute(t) \/ Return(t)

SpecThreads == InitThreads /\ [][NextThreads]_vars

\* =================================================================== claims

Contains(stream, piece) == \E i \in 1..Len(stream) : stream[i] = piece

LastStmt(code) == code[Len(code)]

\* The last call was a submission; it returned an observation.
Stepped == last.op = "step"
Returned == Stepped /\ last.raised = "None"

\* The names user code binds: its variables and the modules it imports.
UserKeys == UserVars \cup ModuleKeys

\* The value of x when the last statement of the submission starts: the first
\* statement's binding when it made one, else the value the submission started from.
XBeforeLast(code, pre) ==
    IF Len(code) = 2 /\ code[1].op \in {"assign", "def"} THEN code[1].val ELSE pre["x"]

\* The first of two statements raises: a print of the unbound name.
PrefixRaises(code, pre) ==
    Len(code) = 2 /\ code[1].op = "print" /\ pre["x"] = UNBOUND

\* The source compiles: it is well formed and, in the restricted-compile
\* backend, holds no construct the compile policy rejects.
Compiles(code) ==
    /\ ~HasOp(code, "syntax")
    /\ backend_name = "restrictedpython" => ~HasOp(code, "policy")

\* The last statement of the submission was reached by the execution.
LastReached(code, pre) == Compiles(code) /\ ~PrefixRaises(code, pre)

\* The submission executed "import m".
ImportReached(m) ==
    Stepped /\ LastStmt(last.code) = Import(m) /\ LastReached(last.code, last.pre)

\* No dotted prefix of m is in the whitelist the backend was constructed with.
NotWhitelisted(m) ==
    \A i \in 1..Len(m) :
        SubSeq(m, 1, i) \notin ConfiguredWhitelist(backend_name, additional_imports)

\* C1: namespace persistence.  With no reset in between, a submission starts
\* from the namespace the preceding call left; a binding made by the last
\* statement of a successfully executed program is in that namespace, and a
\* following print(x), submitted as it is (no capture code appended), shows its
\* value with exit_code 0.
C1_NamespacePersistence ==
    [][ (runs' = runs + 1) =>
          /\ last'.pre = ctx
          /\ (Returned /\ last.obs.exit_code = 0 /\ ~last.capture
                /\ LastStmt(last.code).op \in {"assign", "def"})
               => ctx[LastStmt(last.code).var] = LastStmt(last.code).val
          /\ (last'.code = <<PrintVar("x")>> /\ ~last'.capture /\ ctx["x"] # UNBOUND)
               => /\ last'.raised = "None"
                  /\ last'.obs.exit_code = 0
                  /\ Contains(last'.obs.stdout, <<ctx["x"]>>) ]_vars

\* C1's case: the second submission of an episode prints the 10 bound by the first.
C1_Witness ==
    /\ Returned /\ step_count = 2
    /\ last.code = <<PrintVar("x")>>
    /\ last.pre["x"] = "10"
    /\ last.obs.exit_code = 0
    /\ Contains(last.obs.stdout, <<"10">>)

\* C2: reset replaces the namespace.  After reset() no name bound by an earlier
\* submission is bound, the namespace is the fresh one, and a submission that
\* starts by referencing the then-unbound x fails with exit_code 1 and an error
\* saying x is not defined: a NameError in the restricted-compile backend, the
\* interpreter's undefined-variable error in the interpreted one.
C2_ResetReplacesNamespace ==
    /\ last.op = "reset" =>
          /\ ctx = CreateExecutor(backend_name)
          /\ \A k \in UserKeys : ctx[k] = UNBOUND
    /\ (Stepped /\ Compiles(last.code)
          /\ last.code[1] = PrintVar("x") /\ last.pre["x"] = UNBOUND) =>
          /\ last.raised = "None"
          /\ last.obs.exit_code = 1
          /\ Contains(last.obs.stderr, <<"x">>)
          /\ Contains(last.obs.stderr, <<"is not defined">>)
          /\ backend_name = "restrictedpython" =>
                Contains(last.obs.stderr, <<"NameError">>)

\* C2's case: x was bound, the controller was reset, and the first submission of
\* the new episode references x.
C2_Witness ==
    /\ Returned /\ episode_id = 1 /\ step_count = 1 /\ runs = 2
    /\ last.code = <<PrintVar("x")>>
    /\ last.pre = CreateExecutor(backend_name)
    /\ last.obs.exit_code = 1
    /\ Contains(last.obs.stderr, <<"is not defined">>)

\* C3: an executed import of a module that is neither whitelisted nor in the
\* standard-library reference set returns a normal result with exit_code 1 and
\* the module's name in stderr.
C3_UnlistedImportRejected ==
    \A m \in ImportTargets :
        (ImportReached(m) /\ NotWhitelisted(m) /\ Top(m) \notin StdlibModules) =>
            /\ last.raised = "None"
            /\ last.obs.exit_code = 1
            /\ Contains(last.obs.stderr, m)

\* C3's case: numpy is imported by a session whose whitelist does not name it,
\* after a statement of the same submission that ran.
C3_Witness ==
    /\ ImportReached(numpy) /\ NotWhitelisted(numpy)
    /\ Len(last.code) = 2
    /\ last.obs.exit_code = 1
    /\ Contains(last.obs.stderr, numpy)

\* C4 as stated: an executed import of a standard-library module succeeds,
\* whitelisted or not.
C4_Original ==
    \A m \in ImportTargets :
        (ImportReached(m) /\ Top(m) \in StdlibModules) =>
            (last.raised = "None" /\ last.obs.exit_code = 0)

C6_Original ==
    Stepped =>
        /\ last.raised = "None"
        /\ (LastReached(last.code, last.pre) /\ LastStmt(last.code) = DivZero("x")) =>
              (last.obs.exit_code = 1 /\ Contains(last.obs.stderr, <<"ZeroDivisionError">>))
        /\ (LastReached(last.code, last.pre) /\ LastStmt(last.code) = RaiseSystemExit) =>
              (last.obs.exit_code = 1 /\ Contains(last.obs.stderr, <<"SystemExit">>))

\* The last statement raises when it is reached.
LastRaises(code, pre) ==
    LET s == LastStmt(code)
    IN  \/ s.op \in {"div0", "exit"}
        \/ s.op = "print" /\ XBeforeLast(code, pre) = UNBOUND
        \/ s.op = "import" /\ ~ImportAllowed(backend_name, additional_imports, s.mod)
        \/ s.op = "import" /\ s.mod \notin Installed
        \/ s.op = "policy" /\ backend_name = "smolagents"

\* The injected time.sleep raises: the user statements completed and, in the
\* restricted-compile backend, the name time is no longer bound to the module.
WaitRaises(code, pre, capture) ==
    /\ capture /\ backend_name = "restrictedpython"
    /\ ~PrefixRaises(code, pre) /\ ~LastRaises(code, pre)
    /\ (HasOp(code, "assign") /\ LastStmt(code).var = "time") \/ pre["time"] # "module"

\* A statement of the executed program raised an exception during execution.
ExceptionRaised(code, pre) ==
    /\ Compiles(code)
    /\ \/ PrefixRaises(code, pre)
       \/ LastRaises(code, pre)
       \/ WaitRaises(code, pre, last.capture)

\* C7: a run that compiles and raises nothing returns exit_code 0, whether or
\* not stdout is empty; a result of the restricted-compile backend has exit_code
\* 0 or 1, and 1 exactly when compilation failed or an exception was raised.
C7_ExitCode ==
    Returned =>
        /\ (Compiles(last.code) /\ ~ExceptionRaised(last.code, last.pre))
              => last.obs.exit_code = 0
        /\ backend_name = "restrictedpython" =>
              /\ last.obs.exit_code \in {0, 1}
              /\ last.obs.exit_code = 1 <=>
                    (~Compiles(last.code) \/ ExceptionRaised(last.code, last.pre))

\* C7's case: a successful run of the restricted-compile backend that printed nothing.
C7_Witness ==
    /\ Returned /\ backend_name = "restrictedpython"
    /\ last.code = <<Assign("x", "10")>>
    /\ last.obs.stdout = <<>>
    /\ last.obs.exit_code = 0

\* The namespace entries run() itself installs before compiling.
InstalledByRun == GuardKeys \cup {"_print_", "internal_capture_screenshot"}

SyntaxErrorReported ==
    /\ last.raised = "None"
    /\ last.obs.exit_code = 1
    /\ \/ Contains(last.obs.stderr, <<"invalid syntax">>)
       \/ Contains(last.obs.stderr, <<"Code parsing failed">>)

\* C8 as stated: a malformed submission leaves the namespace identical: no key
\* added, removed or rebound.
C8_Original ==
    (Stepped /\ HasOp(last.code, "syntax")) =>
        (SyntaxErrorReported /\ ctx = last.pre)

\* C8 amended: a malformed submission (with or without capture) yields
\* exit_code 1 with the syntax error text in stderr and leaves every user
\* binding as it was; the restricted-compile run() has by then installed its own
\* entries: the _print_ collector class, the guard table and, when a capture is
\* requested, internal_capture_screenshot.
C8_SyntaxErrorKeepsUserBindings ==
    (Stepped /\ HasOp(last.code, "syntax")) =>
        /\ SyntaxErrorReported
        /\ \A k \in Keys \ InstalledByRun : ctx[k] = last.pre[k]
        /\ backend_name = "smolagents" => ctx = last.pre

\* C8's case: a malformed submission with capture, made when x was bound; x is
\* kept and the capture tool has been added to the namespace.
C8_Witness ==
    /\ Stepped /\ HasOp(last.code, "syntax") /\ last.capture
    /\ backend_name = "restrictedpython"
    /\ last.pre["x"] = "10" /\ ctx["x"] = "10"
    /\ last.pre["internal_capture_screenshot"] = UNBOUND
    /\ ctx["internal_capture_screenshot"] = "tool"
    /\ last.obs.exit_code = 1

\* The submission executed an import the gate rejects.
ImportRejected ==
    \E m \in ImportTargets :
        ImportReached(m) /\ ~ImportAllowed(backend_name, additional_imports, m)

\* The submission holds a disallowed construct that the backend came to check.
ConstructRejected ==
    /\ Stepped /\ LastStmt(last.code) = Disallowed
    /\ ~HasOp(last.code, "syntax") /\ ~PrefixRaises(last.code, last.pre)

PolicyViolationReported ==
    /\ last.raised = "None"
    /\ last.obs.exit_code = 1
    /\ \/ Contains(last.obs.stderr, <<"is not allowed">>)
       \/ Contains(last.obs.stderr, <<"construct is not allowed">>)
       \/ Contains(last.obs.stderr, <<"not allowed">>)

\* C9 as stated: a policy violation leaves the namespace untouched: the
\* bindings of the statements that precede the violating one are not present.
C9_Original ==
    (ImportRejected \/ ConstructRejected) =>
        /\ PolicyViolationReported
        /\ \A k \in UserKeys : ctx[k] = last.pre[k]

\* C9 amended: a policy violation is reported with exit_code 1 and its message
\* in stderr.  A disallowed construct in the restricted-compile backend is
\* rejected at compile time and leaves every user binding as it was.  A
\* disallowed import is raised at run time, when the import statement is
\* reached: the bindings of the statements that precede it are retained.
C9_PolicyViolation ==
    (ImportRejected \/ ConstructRejected) =>
        /\ PolicyViolationReported
        /\ (ConstructRejected /\ backend_name = "restrictedpython") =>
              \A k \in UserKeys : ctx[k] = last.pre[k]
        /\ ImportRejected =>
              /\ ctx["x"] = XBeforeLast(last.code, last.pre)
              /\ \A k \in ModuleKeys : ctx[k] = last.pre[k]

\* C9's case: x = 10 followed by a rejected import of numpy; x stays bound.
C9_Witness ==
    /\ ImportRejected
    /\ last.code = <<Assign("x", "10"), Import(numpy)>>
    /\ last.pre["x"] = UNBOUND /\ ctx["x"] = "10"
    /\ last.obs.exit_code = 1

\* C10: when the last statement of a submission raises a runtime exception, the
\* result has exit_code 1, the binding made by the statement before it is
\* retained in the namespace the next submission starts from, and the failing
\* statement binds nothing.
C10_PartialMutationsRetained ==
    (Returned /\ LastReached(last.code, last.pre) /\ LastRaises(last.code, last.pre)) =>
        /\ last.obs.exit_code = 1
        /\ ctx["x"] = XBeforeLast(last.code, last.pre)
        /\ \A k \in ModuleKeys : ctx[k] = last.pre[k]

\* C10's case: x = 10 followed by x = 1/0; x is 10 afterwards.
C10_Witness ==
    /\ Returned
    /\ last.code = <<Assign("x", "10"), DivZero("x")>>
    /\ last.pre["x"] = UNBOUND /\ ctx["x"] = "10"
    /\ last.obs.exit_code = 1
    /\ Contains(last.obs.stderr, <<"ZeroDivisionError">>)

\* The exit code the same code gets from the same namespace without a capture request.
ExitCodeWithoutCapture ==
    Run(backend_name, last.pre, <<>>, 0, additional_imports, last.code, FALSE, "ok",
        "builtin").result.exit_code

\* The diagnostic line of the capture attempt's outcome, as the backend's
\* capture routine words it.
CaptureDiagnostic(env) ==
    IF backend_name = "restrictedpython" THEN UtilsDiagnostic(env) ELSE ToolDiagnostic(env)

\* C11 as stated: a capture request never changes the exit code, and a failed
\* capture attempt gives a null frame, raises nothing and leaves its
\* diagnostics in stdout.
C11_Original ==
    (Stepped /\ last.capture) =>
        /\ last.raised = "None"
        /\ last.obs.exit_code = ExitCodeWithoutCapture
        /\ last.env # "ok" => last.obs.screenshot = "None"
        /\ (last.env # "ok" /\ last.obs.exit_code = 0) =>
              Contains(last.obs.stdout, CaptureDiagnostic(last.env))

\* The events of a run in which every user statement started.
AllStatements(code) == [i \in 1..Len(code) |-> "statement"]

CountOf(events, what) == Cardinality({i \in 1..Len(events) : events[i] = what})

\* The user statements of the submission all completed and the injected wait did too.
ReachesCapture ==
    /\ Compiles(last.code)
    /\ ~PrefixRaises(last.code, last.pre)
    /\ ~LastRaises(last.code, last.pre)
    /\ ~WaitRaises(last.code, last.pre, last.capture)

\* C12 as stated: whenever a capture is requested the capture tool is invoked
\* exactly once, as the last step: all user statements, the wait, the capture.
C12_Original ==
    (Stepped /\ last.capture) =>
        last.events = AllStatements(last.code) \o <<"wait", "capture">>

\* C12 amended: a submission with a capture request invokes the capture tool at
\* most once, and exactly once when the source compiles and every user
\* statement and the wait complete without raising; the order of events is then
\* all user statements, the wait, the capture-tool invocation, and the return.
\* When the source does not compile, or a user statement or the wait raises,
\* the capture tool is not invoked; it is never invoked without a request.
C12_CaptureIsLastStep ==
    Stepped =>
        /\ CountOf(last.events, "capture") <= 1
        /\ (last.capture /\ ReachesCapture) =>
              last.events = AllStatements(last.code) \o <<"wait", "capture">>
        /\ ~(last.capture /\ ReachesCapture) => CountOf(last.events, "capture") = 0
        /\ \A i \in 1..Len(last.events) :
              last.events[i] \in {"wait", "capture"} =>
                  /\ last.capture
                  /\ \A j \in 1..Len(last.events) :
                        last.events[j] = "statement" => j < i
        /\ \A i \in 1..Len(last.events) :
              last.events[i] = "capture" => (i > 1 /\ last.events[i - 1] = "wait")

\* C12's case: a capture submission whose statement completed, followed by the
\* wait and one invocation of the capture tool.
C12_Witness ==
    /\ Returned /\ last.capture
    /\ last.code = <<PrintVar("x")>>
    /\ last.events = <<"statement", "wait", "capture">>

\* The failure mode of a capture attempt: an error in creating or reading the
\* scratch file is the mode "any other error".
FailureMode(env) == IF env \in {"mktemp_error", "read_error"} THEN "other" ELSE env

\* The capture tool was invoked during the last submission.
ToolInvoked == Stepped /\ CountOf(last.events, "capture") = 1

\* C13: the capture routine never raises to its caller; each failure mode gives
\* a null payload and a diagnostic line of its own; the payload is non-null
\* only when the tool exited 0 and the scratch file exists and is not empty.
C13_CaptureNeverRaises ==
    /\ \A env \in CaptureEnvs :
          LET u == CaptureScreenshotBase64(env, scratch_files)
              t == InterpreterCaptureTool(env, scratch_files)
          IN  /\ u.raised = "None" /\ t.raised = "None"
              /\ u.payload # "None" <=> env = "ok"
              /\ t.screenshot # "None" <=> env = "ok"
              /\ Contains(u.debug, UtilsDiagnostic(env))
              /\ Contains(t.debug, ToolDiagnostic(env))
    /\ \A e1, e2 \in CaptureEnvs \ {"ok"} :
          FailureMode(e1) # FailureMode(e2) =>
              /\ UtilsDiagnostic(e1) # UtilsDiagnostic(e2)
              /\ ToolDiagnostic(e1) # ToolDiagnostic(e2)
              /\ UtilsDiagnostic(e1) # UtilsDiagnostic("ok")
              /\ ToolDiagnostic(e1) # ToolDiagnostic("ok")
    /\ ToolInvoked =>
          /\ last.tool_raised = "None"
          /\ last.raised = "None"
          /\ captured_screenshot = (IF last.env = "ok" THEN "png" ELSE "None")
          /\ last.obs.screenshot = captured_screenshot
          /\ Contains(last.obs.stdout, CaptureDiagnostic(last.env))

\* C13's case: the capture tool was invoked and the import command timed out.
C13_Witness ==
    /\ ToolInvoked /\ last.env = "timeout"
    /\ last.obs.screenshot = "None"
    /\ last.obs.exit_code = 0
    /\ Contains(last.obs.stdout, CaptureDiagnostic("timeout"))
    /\ ~Contains(last.obs.stdout, CaptureDiagnostic("nonzero"))

C15_ResetStartsEpisode ==
    [][ (next_uuid' # next_uuid) =>
          /\ last'.op = "reset"
          /\ episode_id' # episode_id
          /\ episode_id' = next_uuid
          /\ step_count' = 0
          /\ last_exit_code' = 0
          /\ last'.obs = [stdout |-> <<>>, stderr |-> <<>>, exit_code |-> 0,
                         screenshot |-> "None"] ]_vars

\* C15's case: a reset made after a submission that failed.
C15_Witness ==
    /\ last.op = "reset" /\ last.prev_failed /\ runs >= 1
    /\ episode_id = 1 /\ step_count = 0 /\ last_exit_code = 0
    /\ last.obs.exit_code = 0 /\ last.obs.stdout = <<>>

\* C16 as stated: every submission the controller accepts adds one to
\* step_count, so step_count is the number of submissions accepted since the
\* last reset, and last_exit_code is the exit_code of the episode's most recent
\* observation, 0 when it has none.
C16_Original ==
    /\ step_count = accepted
    /\ step_count >= 0
    /\ Returned => last_exit_code = last.obs.exit_code
    /\ last.op \in {"init", "reset"} => (step_count = 0 /\ last_exit_code = 0)

\* C17: an action that is not a CodeAction is rejected with ValueError before
\* the executor is called; step_count, last_exit_code, episode_id, the stored
\* screenshot and the namespace are unchanged.
C17_WrongShapeRejected ==
    [][ (last'.op = "rejected") =>
          /\ last'.raised = "ValueError"
          /\ runs' = runs
          /\ UNCHANGED <<step_count, last_exit_code, episode_id, captured_screenshot,
                         ctx, collector, executor, scratch_files>> ]_vars

\* C17's case: a rejection in an episode that has run a failing submission and
\* bound x.
C17_Witness ==
    /\ last.op = "rejected" /\ last.raised = "ValueError"
    /\ step_count = 2 /\ last_exit_code = 1
    /\ ctx["x"] = "10"

\* C18: reset() replaces the executor instance and its namespace by new ones of
\* the backend and the whitelist fixed at construction; no call changes the
\* backend variant, the whitelist or the answer of the import gate.
C18_ResetKeepsConfiguration ==
    [][ /\ backend_name' = backend_name
        /\ additional_imports' = additional_imports
        /\ \A m \in ImportTargets :
              ImportAllowed(backend_name', additional_imports', m)
                  = ImportAllowed(backend_name, additional_imports, m)
        /\ (last'.op = "reset") =>
              /\ executor' # executor
              /\ ctx' = CreateExecutor(backend_name)
              /\ collector' = <<>>
        /\ (executor' # executor) => last'.op = "reset" ]_vars

\* C18's case: after a reset the restricted-compile backend still executes, and
\* the whitelisted numpy is still importable.
C18_Witness ==
    /\ episode_id = 1 /\ executor = 1 /\ runs = 2
    /\ backend_name = "restrictedpython"
    /\ ImportReached(numpy) /\ numpy \in additional_imports
    /\ last.obs.exit_code = 0 /\ ctx["numpy"] = "module"

\* C19: a failed submission ends nothing: the executor instance stays, the next
\* submission starts from the namespace the failed one left, and it is executed
\* normally: x = 10 after a failure returns exit_code 0 and binds x.
C19_FailureKeepsSession ==
    [][ (runs' = runs + 1) =>
          /\ executor' = executor
          /\ episode_id' = episode_id
          /\ last'.pre = ctx
          /\ (Failed(last) /\ last'.code = <<Assign("x", "10")>> /\ ~last'.capture) =>
                /\ last'.raised = "None"
                /\ last'.obs.exit_code = 0
                /\ ctx'["x"] = "10" ]_vars

\* C19's case: a submission executed normally right after one that failed.
C19_Witness ==
    /\ Returned /\ last.prev_failed
    /\ last.code = <<Assign("x", "10")>>
    /\ last.obs.exit_code = 0 /\ ctx["x"] = "10"
    /\ step_count = 2

\* C20 as stated: the backend that executes the session's submissions is the
\* one the caller's selector names.
C20_Original == backend_name = selector

OtherBackend(backend) ==
    IF backend = "restrictedpython" THEN "smolagents" ELSE "restrictedpython"

\* Code both backends support: it holds no construct the restricted compile
\* policy rejects, it does not leave the run by SystemExit, and every module
\* it imports gets the same answer from both import gates.
BothSupport(code, imports) ==
    /\ ~HasOp(code, "policy")
    /\ ~HasOp(code, "exit")
    /\ \A i \in 1..Len(code) :
          code[i].op = "import" =>
              ImportAllowed("smolagents", imports, code[i].mod)
                  = ImportAllowed("restrictedpython", imports, code[i].mod)

\* The result the other backend returns for the last submission as the first
\* submission of a session with the same whitelist.
OtherFirstRun ==
    Run(OtherBackend(backend_name), CreateExecutor(OtherBackend(backend_name)), <<>>,
        scratch_files, additional_imports, last.code, last.capture, last.env, "builtin")

\* C21 as stated, for the first submission of a session: the two backends
\* return the same stdout, the same exit_code and the same null or non-null
\* frame for code both support.
C21_Original ==
    (Returned /\ runs = 1 /\ episode_id = 0 /\ BothSupport(last.code, additional_imports)) =>
        /\ OtherFirstRun.raised = "None"
        /\ OtherFirstRun.result.stdout = last.obs.stdout
        /\ OtherFirstRun.result.exit_code = last.obs.exit_code
        /\ (OtherFirstRun.shot = "None") = (captured_screenshot = "None")

\* C22: no stale frame.  The observation's screenshot is null when the
\* submission did not ask for a capture; when it is not null, the capture tool
\* of that same submission was invoked and produced it; the frame stored by an
\* earlier submission, or before a reset, is never returned.
C22_NoStaleFrame ==
    /\ Returned =>
          /\ ~last.capture => last.obs.screenshot = "None"
          /\ last.obs.screenshot # "None" =>
                /\ last.capture
                /\ ToolInvoked
                /\ last.env = "ok"
                /\ last.obs.screenshot = captured_screenshot
    /\ Stepped =>
          captured_screenshot = (IF ToolInvoked /\ last.env = "ok" THEN "png" ELSE "None")
    /\ last.op = "reset" => captured_screenshot = "None"

\* C22's case: a frame was stored when the submission started, and the
\* submission returns none: it did not ask for one, or its own capture failed.
C22_Witness ==
    /\ Returned /\ last.pre_shot = "png"
    /\ last.capture /\ ToolInvoked /\ last.env = "timeout"
    /\ last.obs.screenshot = "None" /\ captured_screenshot = "None"

C24_Original == Stepped => last.obs = alone_obs

\* C25: constructing a controller with a backend name other than 'smolagents'
\* or 'restrictedpython' raises ValueError and yields no controller: no call is
\* ever made on it.  A controller that exists has a valid backend name, so no
\* reset() raises.
C25_UnknownBackendRejected ==
    /\ (created_via = "direct" /\ selector \notin {"smolagents", "restrictedpython"}) =>
          /\ last.op = "init" /\ last.raised = "ValueError"
          /\ runs = 0 /\ episode_id = 0 /\ executor = 0
    /\ Constructed => backend_name \in {"smolagents", "restrictedpython"}
    /\ last.op = "reset" => last.raised = "None"

\* C25's case: the constructor was called with executor_backend='docker'.
C25_Witness ==
    /\ created_via = "direct" /\ selector = "docker"
    /\ last.op = "init" /\ last.raised = "ValueError"

\* The last submission reached the wait of the injected capture code.
Waited == Stepped /\ last.capture /\ CountOf(last.events, "wait") = 1

\* C26 as stated: the grace period waited before a capture is the one the
\* caller asked for when there is one, else 0.5.
C26_Original ==
    Waited => render_waited = (IF render_wanted = "default" THEN "0.5" ELSE render_wanted)

\* C27 as stated, for the restricted-compile backend: the stdout of a result
\* holds the text written during that submission, each piece once: nothing
\* when the submission prints nothing, the value of x once when it is print(x).
C27_Original ==
    (backend_name = "restrictedpython" /\ Returned /\ ~last.capture) =>
        /\ ~HasOp(last.code, "print") => last.obs.stdout = <<>>
        /\ (last.code = <<PrintVar("x")>> /\ last.obs.exit_code = 0) =>
              last.obs.stdout = << <<last.pre["x"]>> >>

\* C28 as stated: when a submission prints and a later statement of it raises,
\* the failing result's stdout holds the text printed before the failure.
C28_Original ==
    (Returned /\ Len(last.code) = 2 /\ last.code[1] = PrintVar("x")
        /\ last.pre["x"] # UNBOUND /\ last.code[2] = DivZero("x")) =>
        /\ last.obs.exit_code = 1
        /\ Contains(last.obs.stdout, <<last.pre["x"]>>)

\* C29: stream restoration.  Whatever way a run is left (the return after
\* exec, the return of the compile error, the return of the exception handler,
\* an exception the handler does not catch), sys.stdout and sys.stderr are,
\* when the call is over, the objects they were when it started.
C29_StreamsRestored ==
    [][ (runs' = runs + 1) =>
          /\ sys_streams' = sys_streams
          /\ sys_streams' = [stdout |-> <<"sys.stdout", "process">>, stderr |-> <<"sys.stderr", "process">>] ]_vars

\* C29's case: a restricted-compile run that returned its compile error.
C29_Witness ==
    /\ backend_name = "restrictedpython"
    /\ Returned /\ HasOp(last.code, "syntax") /\ last.obs.exit_code = 1
    /\ Contains(last.obs.stderr, <<"Compilation Error:">>)
    /\ sys_streams = [stdout |-> <<"sys.stdout", "process">>, stderr |-> <<"sys.stderr", "process">>]

\* C30 as stated: when no run is in progress, sys.stdout and sys.stderr are the
\* original streams; the stdout a run returns holds no text written by the
\* other thread's code.
C30_Original ==
    /\ (\A t \in Threads : pc[t] = "idle") =>
          sys_streams = [stdout |-> <<"sys.stdout", "process">>, stderr |-> <<"sys.stderr", "process">>]
    /\ \A t \in Threads :
          \A i \in 1..Len(returned_stdout[t]) : returned_stdout[t][i] = t

\* The guard functions of the restricted-compile backend, by namespace entry.
GuardTable ==
    [k \in GuardKeys |->
        CASE k = "_getattr_" -> "getattr"
          [] k = "_getitem_" -> "getitem"
          [] k = "__import__" -> "restricted_import"
          [] OTHER -> "iter"]

\* The namespace of the last submission at the moment its code started executing.
NamespaceAtStart == PrepareContext(last.pre, last.capture)

\* An earlier submission left the guard names of the namespace rebound.
GuardsWereRebound == \E k \in GuardKeys : last.pre[k] # GuardTable[k]

\* C31 as stated: when the code of a restricted-compile submission starts
\* executing, the five guard entries of the namespace are the backend's guard
\* functions, whatever the namespace held before; an executed import of a
\* module the session's whitelist does not allow is rejected.
C31_Original ==
    (Stepped /\ backend_name = "restrictedpython") =>
        /\ \A k \in GuardKeys : NamespaceAtStart[k] = GuardTable[k]
        /\ \A m \in ImportTargets :
              (ImportReached(m) /\ ~RestrictedImportAllowed(additional_imports, m)) =>
                  /\ last.obs.exit_code = 1
                  /\ Contains(last.obs.stderr, m)

\* What run() does keep: the guard entries of the namespace at the start of
\* every execution.
GuardEntriesReinstalled ==
    (Stepped /\ backend_name = "restrictedpython") =>
        \A k \in GuardKeys : NamespaceAtStart[k] = GuardTable[k]

\* A submission that started from a namespace whose guard names an earlier
\* submission had rebound.
StartedFromReboundGuards == Stepped /\ GuardsWereRebound

\* The names of the namespace a user's statements read and bind, with the
\* names the claim gives as examples.
UserVisibleNames == UserKeys \cup {"screenshot", "msg", "capture_result", "time"}

\* The namespace the submission would have left, had it been submitted from
\* the same state with capture_screenshot=False.
WithoutCapture(code, env) ==
    Run(backend_name, ctx, collector, scratch_files, additional_imports,
        code, FALSE, env, time_sleep).ctx

\* C32 as stated: a submission with capture_frame=true leaves every
\* user-visible name of the namespace bound as the same submission without
\* capture would have left it.
C32_Original ==
    [][ (last'.op = "step" /\ last'.capture) =>
            \A k \in UserVisibleNames : ctx'[k] = WithoutCapture(last'.code, last'.env)[k] ]_vars

\* C33 as stated: an executed import of a module is rejected by the session's
\* backend exactly when the gate of the other backend variant, constructed
\* with the same whitelist, rejects it.
C33_Original ==
    \A m \in ImportTargets :
        ImportReached(m) =>
            (Contains(last.obs.stderr, <<"is not allowed">>)
                <=> ~ImportAllowed(OtherBackend(backend_name), additional_imports, m))

\* C34 as stated: a submission is executed only after reset() has run: the
\* episode it belongs to has an episode identifier.
C34_Original == Stepped => episode_id # 0

\* The exit code the claim describes for a result object r.
DescribedExitCode(r) ==
    CASE r.has_exit_code /\ r.exit_code_is_none -> 0
      [] r.has_exit_code /\ ~r.exit_code_is_none -> r.exit_code
      [] ~r.has_exit_code /\ r.has_success /\ r.success -> 0
      [] ~r.has_exit_code /\ r.has_success /\ ~r.success -> 1
      [] ~r.has_exit_code /\ ~r.has_success /\ r.error = <<>> /\ r.exception = <<>> -> 0
      [] OTHER -> 1

\* C35 as stated: when the interpreter call returned a result object, run
\* returns the exit code the description gives for it; when the call raised,
\* run returns exit_code 1 with empty stdout and the traceback in stderr.
C35_Original ==
    derived.stage = "done" =>
        IF exec_result.raises = "None"
        THEN /\ derived.raised = "None"
             /\ derived.result.exit_code = DescribedExitCode(exec_result)
        ELSE /\ derived.raised = "None"
             /\ derived.result.exit_code = 1
             /\ derived.result.stdout = <<>>
             /\ Contains(derived.result.stderr, <<"Traceback (most recent call last):">>)
             /\ Contains(derived.result.stderr, <<exec_result.raises>>)

\* What run() does keep: the result of a call that raised what "except
\* Exception" catches, and the exit code of every result object the call returns.
ResultWhenCaught ==
    (derived.stage = "done" /\ IsException(exec_result.raises)) =>
        /\ derived.raised = "None"
        /\ derived.result.exit_code = 1
        /\ derived.result.stdout = <<>>
        /\ Contains(derived.result.stderr, <<exec_result.raises>>)

ExitCodeAsDescribed ==
    (derived.stage = "done" /\ exec_result.raises = "None") =>
        /\ derived.raised = "None"
        /\ derived.result.exit_code = DescribedExitCode(exec_result)

\* The list the client was given, followed by tkinter when it does not hold it.
PlusAlwaysOn(L) ==
    IF \E i \in 1..Len(L) : L[i] = tkinter THEN L ELSE L \o <<tkinter>>

\* How often name occurs in list.
Occurrences(list, name) == Cardinality({i \in 1..Len(list) : list[i] = name})

\* The value of ADDITIONAL_IMPORTS the server reads is the one the client
\* encoded: the client was given a non-empty list, or the caller set no value.
ValueFromClient ==
    client_call.additional_imports # <<>> \/ client_call.env_vars.ADDITIONAL_IMPORTS = <<>>

\* C36: the container is started with EXECUTOR_BACKEND set to the client's
\* executor_backend argument, whatever the caller put in env_vars, and with
\* ADDITIONAL_IMPORTS holding the names of a non-empty list separated by single
\* commas; the list the server parses holds no empty entry, no entry with a
\* comma or with surrounding whitespace, and tkinter exactly once when the value
\* did not name it; for a list L of names without commas or surrounding
\* whitespace the server's list is L, in order, followed by tkinter when L
\* does not hold it.
C36_WhitelistRoundTrip ==
    /\ deploy_pc # "idle" =>
          /\ container_env.EXECUTOR_BACKEND = client_call.executor_backend
          /\ client_call.additional_imports # <<>> =>
                Occurrences(container_env.ADDITIONAL_IMPORTS, Comma)
                    = Len(client_call.additional_imports) - 1
    /\ deploy_pc = "serving" =>
          /\ \A i \in 1..Len(app_imports) :
                /\ app_imports[i] # <<>>
                /\ Head(app_imports[i]) # Blank
                /\ app_imports[i][Len(app_imports[i])] # Blank
                /\ Occurrences(app_imports[i], Comma) = 0
          /\ Occurrences(app_imports, tkinter) >= 1
          /\ Occurrences(container_env.ADDITIONAL_IMPORTS, "tkinter") = 0 =>
                (Occurrences(app_imports, tkinter) = 1
                    /\ app_imports[Len(app_imports)] = tkinter)
          /\ ValueFromClient => app_imports = PlusAlwaysOn(client_call.additional_imports)

\* C36's case: a list of two names, a caller who had set EXECUTOR_BACKEND to
\* another value, and the server's list after parsing.
C36_Witness ==
    /\ deploy_pc = "serving"
    /\ client_call.additional_imports = << <<"scipy">>, numpy >>
    /\ client_call.executor_backend = "smolagents"
    /\ client_call.env_vars.EXECUTOR_BACKEND = "restrictedpython"
    /\ container_env = [ADDITIONAL_IMPORTS |-> <<"scipy", Comma, "numpy">>,
                        EXECUTOR_BACKEND |-> "smolagents"]
    /\ app_imports = << <<"scipy">>, numpy, tkinter >>

====
